---- MODULE Spec2Model ----
(***************************************************************************)
(* Model of ursabot's `project build` command (src/ursabot/cli.py,         *)
(* project_build and its helpers): the builder lookup, the local source    *)
(* mounts, the sourcestamp, the short-lived TestMaster driven by the       *)
(* twisted reactor, and the verdict computed from the build's result.      *)
(*                                                                         *)
(* One behaviour is one invocation of the command.  The command line       *)
(* arguments are chosen in Init and never change.  TestMaster lives in     *)
(* ursabot/master.py; what it does at construction, start, build and stop  *)
(* is modelled as nondeterministic outcomes of those calls.                *)
(***************************************************************************)
EXTENDS Integers, Sequences, FiniteSets, TLC

(***************************************************************************)
(* Bounds of the model                                                     *)
(***************************************************************************)
MaxMounts == 2
MaxLogRecords == 2

(***************************************************************************)
(* Values                                                                  *)
(***************************************************************************)
\* an optional value (Python's None or a value) is a sequence of length <= 1
None == << >>
Some(x) == <<x>>

\* buildbot.process.results
SUCCESS == 0
WARNINGS == 1
FAILURE == 2
SKIPPED == 3
EXCEPTION == 4
RETRY == 5
CANCELLED == 6
Results == <<"success", "warnings", "failure", "skipped", "exception",
             "retry", "cancelled">>
ResultCodes == {SUCCESS, WARNINGS, FAILURE, SKIPPED, EXCEPTION, RETRY,
                CANCELLED}

\* the project selected by the `project` group: its name, its repository and
\* its builders, each with its name, its kind and its volumes at load time
ProjectName == "arrow"
ProjectRepo == "https://github.com/apache/arrow"
ProjectBuilders ==
    << [name |-> "docker-builder", docker |-> TRUE,
        volumes |-> << [src |-> <<"/", "cache">>, dst |-> "ccache",
                        mode |-> "rw"] >>],
       [name |-> "plain-builder", docker |-> FALSE, volumes |-> << >>] >>
BuilderNames == {ProjectBuilders[i].name : i \in 1..Len(ProjectBuilders)}

\* a path is the sequence of its parts, as pathlib.Path(...).parts
HomeDir == <<"/", "home", "user">>
MountChoices == {<< <<"~", "arrow">>, "arrow" >>,
                 << <<"~", "arrow">>, "cpp" >>,
                 << <<"/", "src">>, "cpp" >>}

\* a log record is the sequence of its characters: a one-character stream
\* code and the text
LogRecords == {<<"h", "$">>, <<"o", "k">>, <<"o", "h">>, <<"e", "!">>,
               <<"x", "y">>, << >>}

RECURSIVE SeqsUpTo(_, _)
SeqsUpTo(S, n) ==
    IF n = 0 THEN {<< >>}
    ELSE LET shorter == SeqsUpTo(S, n - 1)
         IN  shorter \cup {Append(s, x) : s \in {t \in shorter : Len(t) = n - 1},
                                         x \in S}

\* the command line of one invocation
BuilderNameArgs == BuilderNames \cup {"no-such-builder"}
RepoArgs == {None, Some(""), Some("https://github.com/fork/arrow")}
BranchArgs == {"master", "feature"}
CommitArgs == {None, Some("abc123")}
PullRequestArgs == {None, Some(0), Some(7), Some(42)}
SourcesArgs == SeqsUpTo(MountChoices, MaxMounts)

VARIABLES
    pc,             \* the statement of project_build the process is at
    args,           \* the command line: builder_name, repo, branch, commit,
                    \* pull_request, sources, attach_on_failure
    builder,        \* the builder found by project.builder(), or None
    volumes,        \* builder name -> the builder's volumes
    notReally,      \* buildbot.steps.source.Source.notReally
    sourcestamp,    \* the sourcestamp dict, or None
    attach_on,      \* the result codes on which the master attaches
    result,         \* the `result` dict of project_build
    master,         \* the TestMaster: absent, constructed, starting,
                    \* running, failed, stopped
    reactor,        \* the twisted reactor: idle, running, stopped
    stopCalls,      \* number of reactor.stop() calls made by run()
    build,          \* the build inside the master: none, running, finished,
                    \* raised, hung
    pending,        \* what master.build() is about to return
    buildsTriggered,\* number of calls of master.build()
    interruptedAt,  \* where run() was suspended when SIGINT came, or none
    verdict,        \* what the process reported on exit
    logged,         \* the log records the build has produced so far
    delivered,      \* how many of them the master passed to the log handler
    relayed,        \* what _handle_stdio_log echoed, in order
    image,          \* `docker` command: an image of config.images
    image_filter,   \* `docker` command: the filter applied to the images
    matched         \* `docker` command: image_filter(image), or None

\* the state of the log relay and of the `docker` command
logVars == <<logged, delivered, relayed>>
dockerVars == <<image, image_filter, matched>>

vars == <<pc, args, builder, volumes, notReally, sourcestamp, attach_on,
          result, master, reactor, stopCalls, build, pending,
          buildsTriggered, interruptedAt, verdict, logVars, dockerVars>>

NoVerdict == [kind |-> "Running", exit |-> -1, detail |-> << >>]

InitialVolumes ==
    [n \in BuilderNames |->
        (CHOOSE b \in {ProjectBuilders[i] : i \in 1..Len(ProjectBuilders)} :
            b.name = n).volumes]

Init ==
    /\ pc = "lookup"
    /\ args \in [builder_name : BuilderNameArgs,
                 repo : RepoArgs,
                 branch : BranchArgs,
                 commit : CommitArgs,
                 pull_request : PullRequestArgs,
                 sources : SourcesArgs,
                 attach_on_failure : BOOLEAN]
    /\ builder = None
    /\ volumes = InitialVolumes
    /\ notReally = FALSE
    /\ sourcestamp = None
    /\ attach_on = {}
    /\ result = [complete |-> FALSE, results |-> None]
    /\ master = "absent"
    /\ reactor = "idle"
    /\ stopCalls = 0
    /\ build = "none"
    /\ pending = None
    /\ buildsTriggered = 0
    /\ interruptedAt = "none"
    /\ verdict = NoVerdict
    /\ logged = << >>
    /\ delivered = 0
    /\ relayed = << >>
    /\ image = None
    /\ image_filter = None
    /\ matched = None

(***************************************************************************)
(* Helpers of project_build                                                *)
(***************************************************************************)

\* variant of FindBuilder: an unknown name falls back to the first builder
\* instead of raising KeyError
FindBuilder_Fallback(name) ==
    LET found == {i \in 1..Len(ProjectBuilders) : ProjectBuilders[i].name = name}
    IN  IF found = {} THEN Some(ProjectBuilders[1])
        ELSE Some(ProjectBuilders[CHOOSE i \in found : TRUE])

\* project.builder(name=...): the builder of that name, or KeyError (None)
FindBuilder(name) ==
    LET found == {i \in 1..Len(ProjectBuilders) : ProjectBuilders[i].name = name}
    IN  IF found = {} THEN None
        ELSE Some(ProjectBuilders[CHOOSE i \in found : TRUE])

\* the names the "doesn't have a builder named" message lists
AvailableBuilders == [i \in 1..Len(ProjectBuilders) |-> ProjectBuilders[i].name]

\* d[k] = v on an insertion-ordered dict, kept as a sequence of <<k, v>>
DictSet(d, k, v) ==
    IF \E i \in 1..Len(d) : d[i][1] = k
    THEN [i \in 1..Len(d) |-> IF d[i][1] = k THEN <<k, v>> ELSE d[i]]
    ELSE Append(d, <<k, v>>)

\* dict(p.split(':') for p in sources)
RECURSIVE SourcesDict(_)
SourcesDict(pairs) ==
    IF pairs = << >> THEN << >>
    ELSE LET last == pairs[Len(pairs)]
         IN  DictSet(SourcesDict(SubSeq(pairs, 1, Len(pairs) - 1)),
                     last[1], last[2])

\* Path(src).expanduser(): a leading ~ becomes the home directory
ExpandUser(path) ==
    IF path[1] = "~" THEN HomeDir \o Tail(path) ELSE path

\* the volumes _use_local_sources builds, one per item of the sources dict:
\* Interpolate('{src}:%(prop:docker_workdir)s/%(prop:builddir)s/{dst}:rw')
LocalVolumes(sources) ==
    [i \in 1..Len(sources) |->
        [src |-> ExpandUser(sources[i][1]), dst |-> sources[i][2],
         mode |-> "rw"]]

\* str(n) for a natural number
Digits == <<"0", "1", "2", "3", "4", "5", "6", "7", "8", "9">>
RECURSIVE IntToStr(_)
IntToStr(n) ==
    IF n < 10 THEN Digits[n + 1]
    ELSE IntToStr(n \div 10) \o Digits[(n % 10) + 1]

\* variant of StampBranch: `if pull_request:` instead of
\* `if pull_request is not None:`
StampBranch_Truthy(pull_request, branch) ==
    IF pull_request # None /\ pull_request[1] # 0
    THEN "refs/pull/" \o IntToStr(pull_request[1]) \o "/merge"
    ELSE branch

\* the branch of the sourcestamp
StampBranch(pull_request, branch) ==
    IF pull_request # None
    THEN "refs/pull/" \o IntToStr(pull_request[1]) \o "/merge"
    ELSE branch

\* repo or project.repo: None and '' are both falsy
StampRepository(repo) ==
    IF repo # None /\ repo[1] # "" THEN repo[1] ELSE ProjectRepo

\* variant of AttachOn: warnings attach too, and the flag is not looked at
AttachOn_WithWarnings(attach_on_failure) ==
    {WARNINGS, FAILURE, EXCEPTION}

\* {FAILURE, EXCEPTION} if attach_on_failure else set()
AttachOn(attach_on_failure) ==
    IF attach_on_failure THEN {FAILURE, EXCEPTION} ELSE {}

\* variant of Classify: the result code is looked at before `complete`
Classify_ResultsFirst(res) ==
    IF res.results \in {Some(SUCCESS), Some(WARNINGS)}
    THEN [kind |-> "Success", exit |-> 0, detail |-> <<"Build successful!">>]
    ELSE IF ~res.complete
    THEN [kind |-> "Incomplete", exit |-> 1,
          detail |-> <<"Build has not completed!">>]
    ELSE [kind |-> "Failed", exit |-> 1,
          detail |-> <<"Build has failed with state",
                       Results[res.results[1] + 1]>>]

\* variant of Classify: `complete` is not looked at
Classify_NoCompleteCheck(res) ==
    IF res.results \in {Some(SUCCESS), Some(WARNINGS)}
    THEN [kind |-> "Success", exit |-> 0, detail |-> <<"Build successful!">>]
    ELSE [kind |-> "Failed", exit |-> 1,
          detail |-> <<"Build has failed with state",
                       IF res.results = None THEN "None"
                       ELSE Results[res.results[1] + 1]>>]

\* l.startswith(c)
StartsWith(l, c) == Len(l) > 0 /\ l[1] = c

\* variant of EchoLine: `'h' in l` and so on instead of l.startswith
EchoLine_Contains(l) ==
    IF \E i \in 1..Len(l) : l[i] = "h"
    THEN [fg |-> "blue", text |-> Tail(l)]
    ELSE IF \E i \in 1..Len(l) : l[i] = "e"
    THEN [fg |-> "red", text |-> Tail(l)]
    ELSE IF \E i \in 1..Len(l) : l[i] = "o"
    THEN [fg |-> "none", text |-> Tail(l)]
    ELSE [fg |-> "none", text |-> l]

\* the body of the loop of _handle_stdio_log: what click.echo prints for l
EchoLine(l) ==
    IF StartsWith(l, "h") THEN [fg |-> "blue", text |-> Tail(l)]
    ELSE IF StartsWith(l, "e") THEN [fg |-> "red", text |-> Tail(l)]
    ELSE IF StartsWith(l, "o") THEN [fg |-> "none", text |-> Tail(l)]
    ELSE [fg |-> "none", text |-> l]

\* variant of HandleStdioLog: no else branch, other lines are not echoed
HandleStdioLog_DropsOthers(newlines) ==
    LET known(l) == StartsWith(l, "h") \/ StartsWith(l, "e")
                        \/ StartsWith(l, "o")
        kept == SelectSeq(newlines, known)
    IN  [i \in 1..Len(kept) |-> EchoLine(kept[i])]

\* _handle_stdio_log(newlines): one echo per line, in the order of newlines
HandleStdioLog(newlines) ==
    [i \in 1..Len(newlines) |-> EchoLine(newlines[i])]

\* the end of project_build: what the process reports for a result dict
Classify(res) ==
    IF ~res.complete
    THEN [kind |-> "Incomplete", exit |-> 1,
          detail |-> <<"Build has not completed!">>]
    ELSE IF res.results[1] \in {SUCCESS, WARNINGS}
    THEN [kind |-> "Success", exit |-> 0, detail |-> <<"Build successful!">>]
    ELSE [kind |-> "Failed", exit |-> 1,
          detail |-> <<"Build has failed with state",
                       Results[res.results[1] + 1]>>]

(***************************************************************************)
(* project_build, statement by statement                                   *)
(***************************************************************************)

\* check that the triggerable builder exists
LookupBuilder ==
    /\ pc = "lookup"
    /\ LET b == FindBuilder(args.builder_name)
       IN  IF b = None
           THEN /\ verdict' = [kind |-> "BuilderNotFound", exit |-> 1,
                               detail |-> AvailableBuilders]
                /\ pc' = "exited"
                /\ UNCHANGED builder
           ELSE /\ builder' = b
                /\ pc' = "sources"
                /\ UNCHANGED verdict
    /\ UNCHANGED <<logVars, dockerVars>>
    /\ UNCHANGED <<args, volumes, notReally, sourcestamp, attach_on, result,
                   master, reactor, stopCalls, build, pending,
                   buildsTriggered, interruptedAt>>

\* variant of InjectSources: the volumes are added before the builder's kind
\* is checked
InjectSources_InjectFirst ==
    /\ pc = "sources"
    /\ LET sources == SourcesDict(args.sources)
           b == builder[1]
       IN  IF sources # << >>
           THEN /\ volumes' = [volumes EXCEPT ![b.name] =
                                   @ \o LocalVolumes(sources)]
                /\ notReally' = TRUE
                /\ IF ~b.docker
                   THEN /\ verdict' = [kind |-> "UsageError", exit |-> 2,
                                       detail |-> <<"Mounting source directories is a feature only available for docker builders.">>]
                        /\ pc' = "exited"
                   ELSE /\ pc' = "sourcestamp"
                        /\ UNCHANGED verdict
           ELSE /\ pc' = "sourcestamp"
                /\ UNCHANGED <<volumes, notReally, verdict>>
    /\ UNCHANGED <<logVars, dockerVars>>
    /\ UNCHANGED <<args, builder, sourcestamp, attach_on, result, master,
                   reactor, stopCalls, build, pending, buildsTriggered,
                   interruptedAt>>

\* variant of InjectSources: the checkouts are faked even without mounts
InjectSources_AlwaysFake ==
    /\ pc = "sources"
    /\ LET sources == SourcesDict(args.sources)
           b == builder[1]
       IN  IF sources # << >> /\ ~b.docker
           THEN /\ verdict' = [kind |-> "UsageError", exit |-> 2,
                               detail |-> <<"Mounting source directories is a feature only available for docker builders.">>]
                /\ pc' = "exited"
                /\ UNCHANGED <<volumes, notReally>>
           ELSE /\ volumes' = [volumes EXCEPT ![b.name] =
                                   @ \o LocalVolumes(sources)]
                /\ notReally' = TRUE
                /\ pc' = "sourcestamp"
                /\ UNCHANGED verdict
    /\ UNCHANGED <<logVars, dockerVars>>
    /\ UNCHANGED <<args, builder, sourcestamp, attach_on, result, master,
                   reactor, stopCalls, build, pending, buildsTriggered,
                   interruptedAt>>

\* convert the sources to a mapping and, if any, mount them on the builder
InjectSources ==
    /\ pc = "sources"
    /\ LET sources == SourcesDict(args.sources)
           b == builder[1]
       IN  IF sources # << >>
           THEN IF ~b.docker
                THEN /\ verdict' = [kind |-> "UsageError", exit |-> 2,
                                    detail |-> <<"Mounting source directories is a feature only available for docker builders.">>]
                     /\ pc' = "exited"
                     /\ UNCHANGED <<volumes, notReally>>
                ELSE /\ volumes' = [volumes EXCEPT ![b.name] =
                                        @ \o LocalVolumes(sources)]
                     /\ notReally' = TRUE
                     /\ pc' = "sourcestamp"
                     /\ UNCHANGED verdict
           ELSE /\ pc' = "sourcestamp"
                /\ UNCHANGED <<volumes, notReally, verdict>>
    /\ UNCHANGED <<logVars, dockerVars>>
    /\ UNCHANGED <<args, builder, sourcestamp, attach_on, result, master,
                   reactor, stopCalls, build, pending, buildsTriggered,
                   interruptedAt>>

\* construct the sourcestamp, the attach_on set and the empty result
ConstructSourcestamp ==
    /\ pc = "sourcestamp"
    /\ sourcestamp' = Some([codebase |-> "",
                            repository |-> StampRepository(args.repo),
                            branch |-> StampBranch(args.pull_request,
                                                   args.branch),
                            revision |-> args.commit,
                            project |-> ProjectName])
    /\ attach_on' = AttachOn(args.attach_on_failure)
    /\ result' = [complete |-> FALSE, results |-> None]
    /\ pc' = "master"
    /\ UNCHANGED <<logVars, dockerVars>>
    /\ UNCHANGED <<args, builder, volumes, notReally, master, reactor,
                   stopCalls, build, pending, buildsTriggered, interruptedAt,
                   verdict>>

(***************************************************************************)
(* TestMaster (ursabot/master.py), as project_build sees it                *)
(***************************************************************************)

\* TestMaster(config, ...) returns, or raises ConfigErrors
MasterConstructOutcomes == {"ok", "ConfigErrors"}

\* `async with master` enters once the master's startup completed, or the
\* startup raises
MasterStartOutcomes == {"ok", "error"}

\* what `await master.build(...)` can return: a finished build with its
\* result code, or a dict that is not marked complete
BuildReturnValues ==
    {[complete |-> TRUE, results |-> Some(c)] : c \in ResultCodes}
    \cup {[complete |-> FALSE, results |-> x] :
            x \in {None, Some(SUCCESS), Some(FAILURE)}}

\* the master opens an interactive session when the build finished with a
\* result in attach_on
MasterAttaches(res) ==
    res.complete /\ res.results # None /\ res.results[1] \in attach_on

\* configure a lightweight master with in-memory database
ConstructMaster ==
    /\ pc = "master"
    /\ \E outcome \in MasterConstructOutcomes :
        IF outcome = "ok"
        THEN /\ master' = "constructed"
             /\ pc' = "run"
             /\ UNCHANGED verdict
        ELSE /\ verdict' = [kind |-> "ConfigErrors", exit |-> 1,
                            detail |-> <<"Configuration Errors:">>]
             /\ pc' = "exited"
             /\ UNCHANGED master
    /\ UNCHANGED <<logVars, dockerVars>>
    /\ UNCHANGED <<args, builder, volumes, notReally, sourcestamp, attach_on,
                   result, reactor, stopCalls, build, pending,
                   buildsTriggered, interruptedAt>>

\* reactor.callWhenRunning(run); reactor.run(): the reactor starts and run()
\* runs up to its first suspension, inside master.__aenter__
ReactorRun ==
    /\ pc = "run"
    /\ reactor' = "running"
    /\ master' = "starting"
    /\ pc' = "starting"
    /\ UNCHANGED <<logVars, dockerVars>>
    /\ UNCHANGED <<args, builder, volumes, notReally, sourcestamp, attach_on,
                   result, stopCalls, build, pending, buildsTriggered,
                   interruptedAt, verdict>>

\* variant of MasterStartReturns: a failed startup is swallowed and the build
\* is triggered anyway
MasterStartReturns_BuildAnyway ==
    /\ pc = "starting"
    /\ reactor = "running"
    /\ \E outcome \in MasterStartOutcomes :
        IF outcome = "ok"
        THEN /\ master' = "running"
             /\ pc' = "entered"
        ELSE /\ master' = "failed"
             /\ pc' = "entered"
    /\ UNCHANGED <<logVars, dockerVars>>
    /\ UNCHANGED <<args, builder, volumes, notReally, sourcestamp, attach_on,
                   result, reactor, stopCalls, build, pending,
                   buildsTriggered, interruptedAt, verdict>>

\* master.__aenter__ returns or raises; when it raises run() leaves the
\* `async with` without __aexit__ and reaches its finally clause
MasterStartReturns ==
    /\ pc = "starting"
    /\ reactor = "running"
    /\ \E outcome \in MasterStartOutcomes :
        IF outcome = "ok"
        THEN /\ master' = "running"
             /\ pc' = "entered"
        ELSE /\ master' = "failed"
             /\ pc' = "finally"
    /\ UNCHANGED <<logVars, dockerVars>>
    /\ UNCHANGED <<args, builder, volumes, notReally, sourcestamp, attach_on,
                   result, reactor, stopCalls, build, pending,
                   buildsTriggered, interruptedAt, verdict>>

\* master.build(builder.name, sourcestamp, properties=properties) is called
TriggerBuild ==
    /\ pc = "entered"
    /\ buildsTriggered' = buildsTriggered + 1
    /\ build' = "running"
    /\ pc' = "awaiting"
    /\ UNCHANGED <<logVars, dockerVars>>
    /\ UNCHANGED <<args, builder, volumes, notReally, sourcestamp, attach_on,
                   result, master, reactor, stopCalls, pending,
                   interruptedAt, verdict>>

\* the build finishes inside the master, once its log was delivered
BuildCompletes ==
    /\ pc = "awaiting"
    /\ reactor = "running"
    /\ build = "running"
    /\ delivered = Len(logged)
    /\ \E res \in BuildReturnValues :
        /\ pending' = Some(res)
        /\ pc' = IF MasterAttaches(res) THEN "attached" ELSE "returning"
    /\ build' = "finished"
    /\ UNCHANGED <<logVars, dockerVars>>
    /\ UNCHANGED <<args, builder, volumes, notReally, sourcestamp, attach_on,
                   result, master, reactor, stopCalls, buildsTriggered,
                   interruptedAt, verdict>>

\* the interactive session of attach-on-failure ends
AttachEnds ==
    /\ pc = "attached"
    /\ pc' = "returning"
    /\ UNCHANGED <<logVars, dockerVars>>
    /\ UNCHANGED <<args, builder, volumes, notReally, sourcestamp, attach_on,
                   result, master, reactor, stopCalls, build, pending,
                   buildsTriggered, interruptedAt, verdict>>

\* result = await master.build(...)
BuildReturns ==
    /\ pc = "returning"
    /\ result' = pending[1]
    /\ pc' = "exit_master"
    /\ UNCHANGED <<logVars, dockerVars>>
    /\ UNCHANGED <<args, builder, volumes, notReally, sourcestamp, attach_on,
                   master, reactor, stopCalls, build, pending,
                   buildsTriggered, interruptedAt, verdict>>

\* variant of BuildRaises: the exception leaves run() without master.__aexit__
BuildRaises_NoRelease ==
    /\ pc = "awaiting"
    /\ reactor = "running"
    /\ build = "running"
    /\ build' = "raised"
    /\ pc' = "finally"
    /\ UNCHANGED <<logVars, dockerVars>>
    /\ UNCHANGED <<args, builder, volumes, notReally, sourcestamp, attach_on,
                   result, master, reactor, stopCalls, pending,
                   buildsTriggered, interruptedAt, verdict>>

\* variant of BuildRaises: a build that raised is triggered once more
BuildRaises_Retry ==
    /\ pc = "awaiting"
    /\ reactor = "running"
    /\ build = "running"
    /\ build' = "raised"
    /\ pc' = IF buildsTriggered < 2 THEN "entered" ELSE "exit_master"
    /\ UNCHANGED <<logVars, dockerVars>>
    /\ UNCHANGED <<args, builder, volumes, notReally, sourcestamp, attach_on,
                   result, master, reactor, stopCalls, pending,
                   buildsTriggered, interruptedAt, verdict>>

\* await master.build(...) raises: result keeps its value
BuildRaises ==
    /\ pc = "awaiting"
    /\ reactor = "running"
    /\ build = "running"
    /\ build' = "raised"
    /\ pc' = "exit_master"
    /\ UNCHANGED <<logVars, dockerVars>>
    /\ UNCHANGED <<args, builder, volumes, notReally, sourcestamp, attach_on,
                   result, master, reactor, stopCalls, pending,
                   buildsTriggered, interruptedAt, verdict>>

\* the build hangs: master.build(...) never returns and never raises
BuildHangs ==
    /\ pc = "awaiting"
    /\ reactor = "running"
    /\ build = "running"
    /\ build' = "hung"
    /\ UNCHANGED <<logVars, dockerVars>>
    /\ UNCHANGED <<pc, args, builder, volumes, notReally, sourcestamp,
                   attach_on, result, master, reactor, stopCalls, pending,
                   buildsTriggered, interruptedAt, verdict>>

\* variant of ExitMaster: leaving the master also restores the real checkouts
ExitMaster_ResetsFlag ==
    /\ pc = "exit_master"
    /\ master' = "stopped"
    /\ notReally' = FALSE
    /\ pc' = "finally"
    /\ UNCHANGED <<logVars, dockerVars>>
    /\ UNCHANGED <<args, builder, volumes, sourcestamp, attach_on,
                   result, reactor, stopCalls, build, pending,
                   buildsTriggered, interruptedAt, verdict>>

\* the end of `async with master`, normal or exceptional: master.__aexit__
ExitMaster ==
    /\ pc = "exit_master"
    /\ master' = "stopped"
    /\ pc' = "finally"
    /\ UNCHANGED <<logVars, dockerVars>>
    /\ UNCHANGED <<args, builder, volumes, notReally, sourcestamp, attach_on,
                   result, reactor, stopCalls, build, pending,
                   buildsTriggered, interruptedAt, verdict>>

\* finally: reactor.stop()
ReactorStop ==
    /\ pc = "finally"
    /\ reactor' = "stopped"
    /\ stopCalls' = stopCalls + 1
    /\ pc' = "verdict"
    /\ UNCHANGED <<logVars, dockerVars>>
    /\ UNCHANGED <<args, builder, volumes, notReally, sourcestamp, attach_on,
                   result, master, build, pending, buildsTriggered,
                   interruptedAt, verdict>>

\* SIGINT while run() is suspended: the handler reactor.run() installed stops
\* the reactor, reactor.run() returns and run() is never resumed
Interrupt ==
    /\ pc \in {"starting", "awaiting"}
    /\ reactor = "running"
    /\ reactor' = "stopped"
    /\ interruptedAt' = pc
    /\ pc' = "verdict"
    /\ UNCHANGED <<logVars, dockerVars>>
    /\ UNCHANGED <<args, builder, volumes, notReally, sourcestamp, attach_on,
                   result, master, stopCalls, build, pending,
                   buildsTriggered, verdict>>

\* variant of Verdict: the result code is popped from the result dict
Verdict_PopsResults ==
    /\ pc = "verdict"
    /\ reactor = "stopped"
    /\ verdict' = Classify(result)
    /\ result' = [result EXCEPT !.results = None]
    /\ pc' = "exited"
    /\ UNCHANGED <<logVars, dockerVars>>
    /\ UNCHANGED <<args, builder, volumes, notReally, sourcestamp, attach_on,
                   master, reactor, stopCalls, build, pending,
                   buildsTriggered, interruptedAt>>

\* after reactor.run() returned: report the result
Verdict ==
    /\ pc = "verdict"
    /\ reactor = "stopped"
    /\ verdict' = Classify(result)
    /\ pc' = "exited"
    /\ UNCHANGED <<logVars, dockerVars>>
    /\ UNCHANGED <<args, builder, volumes, notReally, sourcestamp, attach_on,
                   result, master, reactor, stopCalls, build, pending,
                   buildsTriggered, interruptedAt>>

\* the running build appends a record to its log
BuildLogs ==
    /\ pc = "awaiting"
    /\ reactor = "running"
    /\ build = "running"
    /\ Len(logged) < MaxLogRecords
    /\ \E l \in LogRecords : logged' = Append(logged, l)
    /\ UNCHANGED <<delivered, relayed, dockerVars>>
    /\ UNCHANGED <<pc, args, builder, volumes, notReally, sourcestamp,
                   attach_on, result, master, reactor, stopCalls, build,
                   pending, buildsTriggered, interruptedAt, verdict>>

\* the master calls log_handler=_handle_stdio_log with the next records of
\* the log, oldest first
DeliverLogs ==
    /\ pc = "awaiting"
    /\ reactor = "running"
    /\ build = "running"
    /\ \E upto \in (delivered + 1)..Len(logged) :
        /\ relayed' = relayed \o HandleStdioLog(SubSeq(logged, delivered + 1,
                                                       upto))
        /\ delivered' = upto
    /\ UNCHANGED <<logged, dockerVars>>
    /\ UNCHANGED <<pc, args, builder, volumes, notReally, sourcestamp,
                   attach_on, result, master, reactor, stopCalls, build,
                   pending, buildsTriggered, interruptedAt, verdict>>

(***************************************************************************)
(* The `docker` command group: filtering config.images                     *)
(***************************************************************************)

\* attribute values and patterns are sequences of characters
ImageDescriptors ==
    [name : {Some(<<"a">>), Some(<<"a", "b">>)},
     tag : {Some(<<"t">>)},
     variant : {None, Some(<< >>), Some(<<"c">>)},
     platform : [arch : {Some(<<"x">>), Some(<<"y">>)},
                 system : {Some(<<"u">>)},
                 distro : {Some(<<"1">>), Some(<<"2">>)}]]

\* the options of the `docker` group; every pattern defaults to '*'
DockerArgs ==
    [name : {Some(<<"*">>), Some(<<"a">>), Some(<<"a", "?">>)},
     tag : {Some(<<"*">>)},
     variant : {Some(<<"*">>), Some(<<"c">>)},
     no_variant : BOOLEAN,
     arch : {Some(<<"*">>), Some(<<"x">>)},
     system : {Some(<<"*">>)},
     distro : {Some(<<"*">>), Some(<<"?">>)}]

\* a criterion of a Filter: left out, Matching(None) or Matching(pattern)
Omitted == [kind |-> "omitted", pattern |-> << >>]
Unset == [kind |-> "unset", pattern |-> << >>]
Glob(pattern) == [kind |-> "glob", pattern |-> pattern]

\* Matching(pattern) for an option value
Matching(option) ==
    IF option = None THEN Unset ELSE Glob(option[1])

\* variant of ImageFilter: --no-variant is not looked at
ImageFilter_KeepsVariant(opts) ==
    [name |-> Matching(opts.name),
     tag |-> Matching(opts.tag),
     variant |-> Matching(opts.variant),
     platform |-> [kind |-> "filter",
                   arch |-> Matching(opts.arch),
                   system |-> Matching(opts.system),
                   distro |-> Matching(opts.distro)]]

\* the image_filter the `docker` group builds from its options
ImageFilter(opts) ==
    [name |-> Matching(opts.name),
     tag |-> Matching(opts.tag),
     variant |-> Matching(IF opts.no_variant THEN None ELSE opts.variant),
     platform |-> [kind |-> "filter",
                   arch |-> Matching(opts.arch),
                   system |-> Matching(opts.system),
                   distro |-> Matching(opts.distro)]]

\* filters that leave criteria or the platform group out
PartialFilters ==
    [name : {Omitted, Glob(<<"a">>), Glob(<<"*">>)},
     tag : {Omitted, Glob(<<"t">>)},
     variant : {Omitted, Unset, Glob(<<"c">>), Glob(<<"*">>)},
     platform : {[kind |-> "omitted"]}
                \cup [kind : {"filter"},
                      arch : {Omitted, Glob(<<"x">>)},
                      system : {Omitted},
                      distro : {Omitted, Glob(<<"?">>)}]]

\* wildcard matching: * is any sequence, ? any single character
RECURSIVE GlobMatch(_, _)
GlobMatch(pattern, value) ==
    IF pattern = << >> THEN value = << >>
    ELSE IF pattern[1] = "*"
    THEN \/ GlobMatch(Tail(pattern), value)
         \/ (value # << >> /\ GlobMatch(pattern, Tail(value)))
    ELSE /\ value # << >>
         /\ (pattern[1] = "?" \/ pattern[1] = value[1])
         /\ GlobMatch(Tail(pattern), Tail(value))

\* a criterion against an attribute that may be missing (None)
MatchingCall(criterion, attribute) ==
    IF criterion.kind = "unset" THEN attribute = None
    ELSE attribute # None /\ GlobMatch(criterion.pattern, attribute[1])

\* variant of CriteriaHold: one matching criterion is enough
RECURSIVE CriteriaHold_Any(_, _, _)
CriteriaHold_Any(keys, filter, obj) ==
    IF keys = << >> THEN FALSE
    ELSE LET k == Head(keys)
         IN  IF filter[k].kind # "omitted" /\ MatchingCall(filter[k], obj[k])
             THEN TRUE
             ELSE CriteriaHold_Any(Tail(keys), filter, obj)

\* the criteria of a filter, one after the other, stopping at the first
\* that does not match
RECURSIVE CriteriaHold(_, _, _)
CriteriaHold(keys, filter, obj) ==
    IF keys = << >> THEN TRUE
    ELSE LET k == Head(keys)
         IN  IF filter[k].kind = "omitted"
             THEN CriteriaHold(Tail(keys), filter, obj)
             ELSE IF ~MatchingCall(filter[k], obj[k]) THEN FALSE
             ELSE CriteriaHold(Tail(keys), filter, obj)

TopKeys == <<"name", "tag", "variant">>
PlatformKeys == <<"arch", "system", "distro">>

\* filter(image): the top-level criteria, then the nested platform filter
FilterCall(filter, obj) ==
    /\ CriteriaHold(TopKeys, filter, obj)
    /\ \/ filter.platform.kind = "omitted"
       \/ CriteriaHold(PlatformKeys, filter.platform, obj.platform)

\* the `docker` group builds image_filter from its options and applies it
DockerGroup ==
    /\ pc = "docker"
    /\ image_filter' = Some(ImageFilter(args))
    /\ matched' = Some(FilterCall(ImageFilter(args), image[1]))
    /\ pc' = "filtered"
    /\ UNCHANGED <<image, logVars>>
    /\ UNCHANGED <<args, builder, volumes, notReally, sourcestamp, attach_on,
                   result, master, reactor, stopCalls, build, pending,
                   buildsTriggered, interruptedAt, verdict>>

\* a filter is applied to an image
ApplyFilter ==
    /\ pc = "filter"
    /\ matched' = Some(FilterCall(image_filter[1], image[1]))
    /\ pc' = "filtered"
    /\ UNCHANGED <<image, image_filter, logVars>>
    /\ UNCHANGED <<args, builder, volumes, notReally, sourcestamp, attach_on,
                   result, master, reactor, stopCalls, build, pending,
                   buildsTriggered, interruptedAt, verdict>>

\* the steps the process takes by itself
ProgramStep ==
    \/ LookupBuilder
    \/ InjectSources
    \/ ConstructSourcestamp
    \/ ConstructMaster
    \/ ReactorRun
    \/ MasterStartReturns
    \/ TriggerBuild
    \/ BuildCompletes
    \/ AttachEnds
    \/ BuildReturns
    \/ BuildRaises
    \/ BuildHangs
    \/ ExitMaster
    \/ ReactorStop
    \/ Verdict

Next ==
    \/ ProgramStep
    \/ Interrupt

\* project_build for every command line; the log of the build is followed in
\* LogSpec and the `docker` command in DockerSpec
Spec == Init /\ [][Next]_vars

\* the process and the reactor keep running; nothing makes a signal arrive
FairSpec == Spec /\ WF_vars(ProgramStep)

\* the command line of the executions whose build log is followed
LogArgs ==
    [builder_name : {"docker-builder"},
     repo : {None},
     branch : {"master"},
     commit : {None},
     pull_request : {None},
     sources : {<< >>},
     attach_on_failure : BOOLEAN]

LogInit == Init /\ args \in LogArgs

LogNext ==
    \/ Next
    \/ BuildLogs
    \/ DeliverLogs

\* project_build together with the log of its build
LogSpec == LogInit /\ [][LogNext]_vars

\* the `docker` command on one image: with the filter of its options, or
\* with a given filter
DockerInit ==
    /\ \/ /\ pc = "docker"
          /\ args \in DockerArgs
          /\ image_filter = None
       \/ /\ pc = "filter"
          /\ args = << >>
          /\ image_filter \in {Some(f) : f \in PartialFilters}
    /\ image \in {Some(d) : d \in ImageDescriptors}
    /\ matched = None
    /\ builder = None
    /\ volumes = InitialVolumes
    /\ notReally = FALSE
    /\ sourcestamp = None
    /\ attach_on = {}
    /\ result = [complete |-> FALSE, results |-> None]
    /\ master = "absent"
    /\ reactor = "idle"
    /\ stopCalls = 0
    /\ build = "none"
    /\ pending = None
    /\ buildsTriggered = 0
    /\ interruptedAt = "none"
    /\ verdict = NoVerdict
    /\ logged = << >>
    /\ delivered = 0
    /\ relayed = << >>

DockerNext ==
    \/ DockerGroup
    \/ ApplyFilter

DockerSpec == DockerInit /\ [][DockerNext]_vars

TypeOK ==
    /\ pc \in {"lookup", "sources", "sourcestamp", "master", "run",
               "starting", "entered", "awaiting", "attached", "returning",
               "exit_master", "finally", "verdict", "exited"}
    /\ master \in {"absent", "constructed", "starting", "running", "failed",
                   "stopped"}
    /\ reactor \in {"idle", "running", "stopped"}
    /\ build \in {"none", "running", "finished", "raised", "hung"}
    /\ buildsTriggered \in 0..1
    /\ stopCalls \in 0..1

(***************************************************************************)
(* Properties                                                              *)
(***************************************************************************)

MasterWasStarted == master \in {"running", "stopped"}
AfterRun == pc \in {"finally", "verdict", "exited"}

C2_InterruptRunsTeardown ==
    (pc = "exited" /\ interruptedAt = "awaiting") => master = "stopped"

\* C3: when builder_name is not a builder of the project, the command ends
\* with an error that lists the project's builder names, and no master is
\* constructed or started, no build is triggered, no mount is injected and
\* no step is taken after the failed lookup.
C3_UnknownBuilder ==
    (args.builder_name \notin BuilderNames) =>
        /\ pc \in {"lookup", "exited"}
        /\ master = "absent"
        /\ reactor = "idle"
        /\ buildsTriggered = 0
        /\ build = "none"
        /\ volumes = InitialVolumes
        /\ notReally = FALSE
        /\ (pc = "exited" =>
                /\ verdict.kind = "BuilderNotFound"
                /\ verdict.exit # 0
                /\ {verdict.detail[i] : i \in 1..Len(verdict.detail)}
                        = BuilderNames)

C3_Witness ==
    pc = "exited" /\ verdict.kind = "BuilderNotFound"

\* C4: when mounts are supplied for a builder that is not a docker builder,
\* the command ends with a usage error before the master is constructed or
\* started, no build is triggered, and the volumes of the builder are what
\* they were before the call.
C4_MountsOnPlainBuilder ==
    (/\ builder # None
     /\ pc \notin {"lookup", "sources"}
     /\ ~builder[1].docker
     /\ args.sources # << >>) =>
        /\ pc = "exited"
        /\ verdict.kind = "UsageError"
        /\ verdict.exit # 0
        /\ master = "absent"
        /\ reactor = "idle"
        /\ buildsTriggered = 0
        /\ volumes = InitialVolumes

C4_Witness ==
    pc = "exited" /\ verdict.kind = "UsageError" /\ Len(args.sources) = 2

\* C5: the verdict reported after the reactor stopped is determined by the
\* result dict: complete with success or warnings exits with 0; complete
\* with failure or exception exits non-zero and names the result code; not
\* complete exits non-zero whatever `results` holds.
C5_VerdictFromResult ==
    (pc = "exited" /\ reactor = "stopped") =>
        /\ (result.complete /\ result.results \in {Some(SUCCESS), Some(WARNINGS)})
                => verdict.exit = 0
        /\ (result.complete /\ result.results = Some(FAILURE))
                => (verdict.exit # 0
                    /\ verdict.detail[Len(verdict.detail)] = "failure")
        /\ (result.complete /\ result.results = Some(EXCEPTION))
                => (verdict.exit # 0
                    /\ verdict.detail[Len(verdict.detail)] = "exception")
        /\ (~result.complete) => verdict.exit # 0

C5_Witness ==
    pc = "exited" /\ ~result.complete /\ result.results = Some(SUCCESS)

BuildNeverCompleted == build \in {"raised", "hung"}

\* C6 as stated: a triggered build that raises or hangs keeps complete=false,
\* is never reported as success or failure, and is eventually reported as
\* incomplete.
C6_IncompleteEventuallyReported ==
    /\ [](BuildNeverCompleted =>
            (~result.complete /\ verdict.kind \in {"Running", "Incomplete"}))
    /\ (BuildNeverCompleted ~> (verdict.kind = "Incomplete"))

\* C6: a triggered build that raises or hangs keeps complete=false and is
\* never reported as success or failure; whenever the process reports a
\* verdict for it, the verdict is incomplete; a build that raised is
\* eventually reported as incomplete (a build that hangs is reported only
\* once the process is interrupted).
C6_IncompleteWhenReported ==
    /\ [](BuildNeverCompleted =>
            /\ ~result.complete
            /\ verdict.kind \in {"Running", "Incomplete"}
            /\ (pc = "exited" => verdict.kind = "Incomplete"))
    /\ ((build = "raised") ~> (verdict.kind = "Incomplete"))

C6_Witness ==
    pc = "exited" /\ build = "hung" /\ verdict.kind = "Incomplete"

\* C7: when the master's startup fails, the process reports a configuration
\* error, and no build is triggered.
C7_StartupFailureIsConfigError ==
    (pc = "exited" /\ master = "failed") =>
        (verdict.kind = "ConfigErrors" /\ buildsTriggered = 0)

\* the merge refs of the pull requests of PullRequestArgs
MergeRef ==
    (0 :> "refs/pull/0/merge") @@ (7 :> "refs/pull/7/merge")
        @@ (42 :> "refs/pull/42/merge")

\* C8: with a pull request id (0 included) the branch of the sourcestamp is
\* refs/pull/<id>/merge whatever --branch is; without one it is the value of
\* --branch.
C8_PullRequestBranch ==
    (sourcestamp # None) =>
        sourcestamp[1].branch =
            IF args.pull_request # None
            THEN MergeRef[args.pull_request[1]]
            ELSE args.branch

C8_Witness ==
    /\ sourcestamp # None
    /\ args.pull_request = Some(0)
    /\ args.branch = "feature"

\* C9: the repository of the sourcestamp is --repo whenever --repo is given
\* (the empty string included) and the project's repository otherwise.
C9_RepoOverrideWins ==
    (sourcestamp # None) =>
        sourcestamp[1].repository =
            IF args.repo # None THEN args.repo[1] ELSE ProjectRepo

\* C10: master.build is called at most once per invocation, exactly once
\* when the builder exists and run() got past the master's startup, and so
\* never twice while Source.notReally is set.
C10_OneBuild ==
    /\ buildsTriggered <= 1
    /\ (MasterWasStarted /\ pc # "entered") => buildsTriggered = 1
    /\ (buildsTriggered = 1) => (builder # None /\ MasterWasStarted)

C10_Witness ==
    pc = "exited" /\ buildsTriggered = 1 /\ notReally

\* C11: an attach session is open only when attach-on-failure was requested
\* and the build finished with failure or exception (attach_on is
\* {FAILURE, EXCEPTION} when requested and empty otherwise); while it is open
\* the master is still running, the reactor is not stopped and no verdict is
\* reported; the only step taken from there is the end of the session, which
\* changes nothing else, and teardown comes after it.
C11_AttachOnlyOnFailure ==
    /\ [](pc = "attached" =>
            /\ args.attach_on_failure
            /\ build = "finished"
            /\ pending # None
            /\ pending[1].complete
            /\ pending[1].results \in {Some(FAILURE), Some(EXCEPTION)}
            /\ master = "running"
            /\ reactor = "running"
            /\ verdict = NoVerdict)
    /\ [](sourcestamp # None =>
            attach_on = IF args.attach_on_failure
                        THEN {FAILURE, EXCEPTION} ELSE {})
    /\ [][pc = "attached" =>
            /\ pc' = "returning"
            /\ UNCHANGED <<master, reactor, result, verdict, stopCalls,
                           buildsTriggered>>]_vars

C11_Witness ==
    pc = "attached" /\ pending[1].results = Some(EXCEPTION)

\* the orchestrator state of the design: 0 Idle, 1 Starting,
\* 2 AwaitingTrigger, 3 Running/AwaitingCompletion, 4 TornDown
OrchRank ==
    CASE master = "absent" -> 0
      [] master \in {"constructed", "starting", "failed"} -> 1
      [] master = "running" /\ buildsTriggered = 0 -> 2
      [] master = "running" /\ buildsTriggered > 0 -> 3
      [] master = "stopped" -> 4

BuildVerdicts == {"Success", "Failed", "Incomplete"}

EmptyResult == [complete |-> FALSE, results |-> None]

LateSteps == {"exit_master", "finally", "verdict", "exited"}

\* the result changes only when master.build returns, inside the master
ResultAssignedOnce ==
    result' # result =>
        /\ result = EmptyResult
        /\ pc = "returning"
        /\ pc' = "exit_master"
        /\ master = "running"
        /\ master' = "running"

\* from teardown on the result is left alone
ResultKeptAfterwards ==
    pc \in LateSteps => (result' = result /\ pc' \in LateSteps)

\* C16: the result starts with complete=false; it is assigned at most once,
\* when master.build returns and before the master is torn down; once
\* assigned it is not changed by teardown, attach, reactor stop or verdict.
C16_ResultFinalizedOnce ==
    /\ [](pc \notin LateSteps => result = EmptyResult)
    /\ [][ResultAssignedOnce]_vars
    /\ [][ResultKeptAfterwards]_vars

C16_Witness ==
    pc = "exited" /\ result.complete /\ result.results = Some(FAILURE)

Injected ==
    /\ builder # None
    /\ builder[1].docker
    /\ args.sources # << >>
    /\ pc \notin {"lookup", "sources"}

\* C17: after the mounts were injected on a docker builder, its volumes are
\* the previous volumes followed by one entry per supplied mount, in the
\* order supplied, also when two mounts share a host path.
C17_OneVolumePerMount ==
    Injected =>
        volumes[builder[1].name] =
            InitialVolumes[builder[1].name]
                \o [i \in 1..Len(args.sources) |->
                        [src |-> ExpandUser(args.sources[i][1]),
                         dst |-> args.sources[i][2], mode |-> "rw"]]

\* C18: once the mounts were injected Source.notReally is true and stays
\* true in every later state, through build, attach, teardown and verdict.
C18_FlagStaysSet ==
    /\ [](Injected => notReally)
    /\ [][notReally => notReally']_vars

C18_Witness ==
    pc = "exited" /\ notReally /\ master = "stopped" /\ result.complete

\* C19: Source.notReally and the builders' volumes differ from their initial
\* values only after mounts were injected on an existing docker builder, and
\* then only the volumes of that builder; no statement other than the
\* injection changes them.
C19_OnlyInjectionChanges ==
    /\ [](~Injected => (notReally = FALSE /\ volumes = InitialVolumes))
    /\ [](Injected =>
            \A n \in BuilderNames \ {builder[1].name} :
                volumes[n] = InitialVolumes[n])
    /\ [][pc # "sources" => UNCHANGED <<volumes, notReally>>]_vars

C19_Witness ==
    /\ pc = "exited"
    /\ master = "stopped"
    /\ args.sources = << >>
    /\ ~notReally

\* C20: a Success, Failed or Incomplete verdict is reported only when the
\* reactor has stopped, it was stopped exactly once, the master is not
\* running any more, and run() stopped the reactor only after leaving the
\* master.
C20_VerdictAfterRelease ==
    /\ (verdict.kind \in BuildVerdicts) =>
            /\ reactor = "stopped"
            /\ master # "running"
            /\ stopCalls + (IF interruptedAt # "none" THEN 1 ELSE 0) = 1
    /\ (stopCalls > 0 /\ MasterWasStarted) => master = "stopped"

\* the text of a record without its stream code
TextOf(l) ==
    IF l # << >> /\ l[1] \in {"h", "o", "e"} THEN Tail(l) ELSE l

LogsInOrder ==
    /\ Len(relayed) = delivered
    /\ delivered <= Len(logged)
    /\ \A i \in 1..Len(relayed) : relayed[i].text = TextOf(logged[i])
    /\ (build = "finished" \/ result # EmptyResult) => delivered = Len(logged)

\* C12: the records are echoed in the order the build logged them, one echo
\* per record; the build is seen to finish, and the result is assigned, only
\* when every record of the log has been echoed, and nothing is echoed
\* afterwards.
C12_LogsInOrderBeforeCompletion ==
    /\ []LogsInOrder
    /\ [][(build = "finished") => (relayed' = relayed)]_vars

C12_Witness ==
    /\ pc = "exited"
    /\ result.complete
    /\ Len(relayed) = 2
    /\ relayed[1].text # relayed[2].text

\* the category of a record, by its first character
Category(l) ==
    IF l = << >> THEN "Unknown"
    ELSE CASE l[1] = "h" -> "Header"
           [] l[1] = "o" -> "Stdout"
           [] l[1] = "e" -> "Stderr"
           [] OTHER -> "Unknown"

\* how each category is shown
Shown(category, l) ==
    CASE category = "Header" -> [fg |-> "blue", text |-> Tail(l)]
      [] category = "Stderr" -> [fg |-> "red", text |-> Tail(l)]
      [] category = "Stdout" -> [fg |-> "none", text |-> Tail(l)]
      [] category = "Unknown" -> [fg |-> "none", text |-> l]

LogStepChangesNothingElse ==
    (logVars' # logVars) =>
        UNCHANGED <<pc, args, builder, volumes, notReally, sourcestamp,
                    attach_on, result, master, reactor, stopCalls, build,
                    pending, buildsTriggered, interruptedAt, verdict>>

\* C14: every record is shown according to its first character only (h
\* header, o stdout, e stderr, anything else and the empty record unknown),
\* and a step of the log relay changes nothing but the log: not the position
\* of project_build, the master, the reactor, the result or the verdict.
C14_ClassifiedByPrefix ==
    /\ [](\A i \in 1..Len(relayed) :
            relayed[i] = Shown(Category(logged[i]), logged[i]))
    /\ [][LogStepChangesNothingElse]_vars

C14_Witness ==
    /\ pc = "exited"
    /\ Len(relayed) = 2
    /\ logged[1] = <<"o", "h">>
    /\ logged[2] = << >>

\* one attribute against one criterion
AttributeMatches(criterion, attribute) ==
    CASE criterion.kind = "omitted" -> TRUE
      [] criterion.kind = "unset" -> attribute = None
      [] criterion.kind = "glob" ->
            attribute # None /\ GlobMatch(criterion.pattern, attribute[1])

\* every criterion of the filter, top-level and nested, matches
AllCriteriaMatch(f, d) ==
    /\ \A k \in {"name", "tag", "variant"} : AttributeMatches(f[k], d[k])
    /\ (f.platform.kind # "omitted" =>
            \A k \in {"arch", "system", "distro"} :
                AttributeMatches(f.platform[k], d.platform[k]))

ConstrainsNothing(f) ==
    /\ \A k \in {"name", "tag", "variant"} : f[k].kind = "omitted"
    /\ (f.platform.kind # "omitted" =>
            \A k \in {"arch", "system", "distro"} :
                f.platform[k].kind = "omitted")

\* what the options of the `docker` group ask of an image
OptionsMatch(opts, d) ==
    /\ d.name # None /\ GlobMatch(opts.name[1], d.name[1])
    /\ d.tag # None /\ GlobMatch(opts.tag[1], d.tag[1])
    /\ IF opts.no_variant THEN d.variant = None
       ELSE d.variant # None /\ GlobMatch(opts.variant[1], d.variant[1])
    /\ d.platform.arch # None
    /\ GlobMatch(opts.arch[1], d.platform.arch[1])
    /\ d.platform.system # None
    /\ GlobMatch(opts.system[1], d.platform.system[1])
    /\ d.platform.distro # None
    /\ GlobMatch(opts.distro[1], d.platform.distro[1])

\* C13: a filter matches an image exactly when every criterion it has, at
\* the top level (name, tag, variant) and in the nested platform filter
\* (arch, system, distro), matches the image's attribute; a filter without
\* criteria matches every image; a pattern on an attribute the image lacks
\* is a non-match; and the filter of the `docker` group asks exactly what
\* its options say, the variant being required absent under --no-variant.
C13_FilterIsConjunctive ==
    (matched # None) =>
        /\ matched[1] = AllCriteriaMatch(image_filter[1], image[1])
        /\ ConstrainsNothing(image_filter[1]) => matched[1]
        /\ (image_filter[1].variant.kind = "glob" /\ image[1].variant = None)
                => ~matched[1]
        /\ (args # << >>) => matched[1] = OptionsMatch(args, image[1])

C13_Witness ==
    /\ matched = Some(FALSE)
    /\ image_filter[1].variant.kind = "glob"
    /\ image[1].variant = None
    /\ image_filter[1].platform.kind = "omitted"

====
